---------------------------- MODULE Spec2Model ----------------------------
(***************************************************************************)
(* A model of dither-lab's pixel transform engine, processImage            *)
(* (utils/ditherAlgorithms), as a state machine: one step per loop         *)
(* iteration of the tone-mapping loop, of the Bayer loop, of the           *)
(* error-diffusion loop, and one step per addError call.                   *)
(*                                                                         *)
(* JavaScript numbers are IEEE-754 doubles and errorBuffer is a            *)
(* Float32Array.  Both are modelled bit-exactly: a float is sign *         *)
(* mantissa * 2^exponent with an arbitrary-size mantissa held as a         *)
(* sequence of 12-bit limbs, and every operation rounds to nearest,        *)
(* ties to even, at 53 bits (number) or 24 bits (Float32Array store).      *)
(* Exponent range is not limited: no value of the model comes near         *)
(* overflow or the subnormal range of either format.                       *)
(***************************************************************************)
EXTENDS Integers, Sequences, FiniteSets, TLC

(***************************************************************************)
(* Natural numbers of any size: little-endian limbs, no high zero limb.    *)
(***************************************************************************)
LimbBits == 12
Base == 2 ^ LimbBits

Limb(a, i) == IF i <= Len(a) THEN a[i] ELSE 0

RECURSIVE BNorm(_)
BNorm(a) ==
    IF a = <<>> THEN a
    ELSE IF a[Len(a)] = 0 THEN BNorm(SubSeq(a, 1, Len(a) - 1)) ELSE a

RECURSIVE BFromInt(_)
BFromInt(n) == IF n = 0 THEN <<>> ELSE <<n % Base>> \o BFromInt(n \div Base)

RECURSIVE BToInt(_)
BToInt(a) == IF a = <<>> THEN 0 ELSE a[1] + Base * BToInt(Tail(a))

RECURSIVE BAddRec(_, _, _, _)
BAddRec(a, b, i, c) ==
    IF i > Len(a) /\ i > Len(b)
    THEN (IF c = 0 THEN <<>> ELSE <<c>>)
    ELSE LET s == Limb(a, i) + Limb(b, i) + c
         IN  <<s % Base>> \o BAddRec(a, b, i + 1, s \div Base)

BAdd(a, b) == BAddRec(a, b, 1, 0)

\* a - b, for a >= b
RECURSIVE BSubRec(_, _, _, _)
BSubRec(a, b, i, borrow) ==
    IF i > Len(a) THEN <<>>
    ELSE LET d == a[i] - Limb(b, i) - borrow
         IN  IF d < 0 THEN <<d + Base>> \o BSubRec(a, b, i + 1, 1)
                      ELSE <<d>> \o BSubRec(a, b, i + 1, 0)

BSub(a, b) == BNorm(BSubRec(a, b, 1, 0))

\* -1, 0, 1 as a < b, a = b, a > b
RECURSIVE BCmpRec(_, _, _)
BCmpRec(a, b, i) ==
    IF i = 0 THEN 0
    ELSE IF a[i] < b[i] THEN -1
    ELSE IF a[i] > b[i] THEN 1
    ELSE BCmpRec(a, b, i - 1)

BCmp(a, b) ==
    IF Len(a) < Len(b) THEN -1
    ELSE IF Len(a) > Len(b) THEN 1
    ELSE BCmpRec(a, b, Len(a))

\* a * k for a machine integer 0 <= k < 2^17
RECURSIVE BMulSmallRec(_, _, _, _)
BMulSmallRec(a, k, i, c) ==
    IF i > Len(a) THEN BFromInt(c)
    ELSE LET s == a[i] * k + c
         IN  <<s % Base>> \o BMulSmallRec(a, k, i + 1, s \div Base)

BMulSmall(a, k) == IF k = 0 \/ a = <<>> THEN <<>> ELSE BMulSmallRec(a, k, 1, 0)

Zeros(n) == [i \in 1..n |-> 0]

RECURSIVE BMulRec(_, _, _)
BMulRec(a, b, i) ==
    IF i > Len(b) THEN <<>>
    ELSE LET part == BMulSmall(a, b[i])
         IN  BAdd(IF part = <<>> THEN <<>> ELSE Zeros(i - 1) \o part,
                  BMulRec(a, b, i + 1))

BMul(a, b) == BMulRec(a, b, 1)

\* <<a \div d, a % d>> for a machine integer 0 < d < 2^17
RECURSIVE BDivSmallRec(_, _, _, _)
BDivSmallRec(a, d, i, r) ==
    IF i = 0 THEN <<<<>>, r>>
    ELSE LET cur  == r * Base + a[i]
             rest == BDivSmallRec(a, d, i - 1, cur % d)
         IN  <<rest[1] \o <<cur \div d>>, rest[2]>>

NormQuotient(qr) == <<BNorm(qr[1]), qr[2]>>

BDivSmall(a, d) == NormQuotient(BDivSmallRec(a, d, Len(a), 0))

BShl(a, bits) ==
    IF a = <<>> THEN <<>>
    ELSE Zeros(bits \div LimbBits) \o BMulSmall(a, 2 ^ (bits % LimbBits))

WithLost(qr, lost) == <<qr[1], lost \/ qr[2] # 0>>

\* <<a \div 2^bits, TRUE iff a bit was shifted out>>
BShr(a, bits) ==
    IF bits \div LimbBits >= Len(a) THEN <<<<>>, a # <<>>>>
    ELSE WithLost(BDivSmall(SubSeq(a, (bits \div LimbBits) + 1, Len(a)),
                            2 ^ (bits % LimbBits)),
                  \E i \in 1..(bits \div LimbBits) : a[i] # 0)

RECURSIVE BitLenInt(_)
BitLenInt(n) == IF n = 0 THEN 0 ELSE 1 + BitLenInt(n \div 2)

BBitLen(a) ==
    IF a = <<>> THEN 0 ELSE LimbBits * (Len(a) - 1) + BitLenInt(a[Len(a)])

RECURSIVE TrailingZerosInt(_)
TrailingZerosInt(n) == IF n % 2 = 1 THEN 0 ELSE 1 + TrailingZerosInt(n \div 2)

(***************************************************************************)
(* Binary floating point.  A float is <<s, M, e>>: the value s * M * 2^e,  *)
(* s in {-1, 0, 1}, M a natural that is odd (zero is <<0, <<>>, 0>>), so   *)
(* that equal values are equal tuples.                                     *)
(***************************************************************************)
FZero == <<0, <<>>, 0>>

\* M * 2^e with the trailing zero bits of M moved into the exponent
RECURSIVE Canon(_, _, _)
Canon(s, M, e) ==
    IF M = <<>> THEN FZero
    ELSE IF M[1] = 0 THEN Canon(s, Tail(M), e + LimbBits)
    ELSE LET tz == TrailingZerosInt(M[1])
         IN  <<s, BShr(M, tz)[1], e + tz>>

\* The float of p significant bits nearest to s * (N / D) * 2^e, ties to even:
\* N a natural, D a machine integer 0 < D < 2^17.  The quotient is taken with
\* at least p + 2 bits (Quotient), cut to p + 1 bits (Trim) and then to p bits
\* (Nearest); `st` says that a nonzero part was cut off below.
Nearest(s, e, q, half, st) ==
    Canon(s, IF half /\ (st \/ q[1] % 2 = 1) THEN BAdd(q, <<1>>) ELSE q, e)

Halve(s, e, q1, st) ==
    Nearest(s, e, BShr(q1[1], 1)[1], q1[1][1] % 2 = 1, st \/ q1[2])

Trim(s, e, Q, st, t) == Halve(s, e + t, BShr(Q, t - 1), st)

Divided(p, s, e, QR, st) ==
    Trim(s, e, QR[1], st \/ QR[2] # 0, BBitLen(QR[1]) - p)

Scaled(p, s, e, D, N2) == Divided(p, s, e, BDivSmall(N2[1], D), N2[2])

Quotient(p, s, N, D, e, sh) ==
    Scaled(p, s, e - sh, D,
           IF sh >= 0 THEN <<BShl(N, sh), FALSE>> ELSE BShr(N, -sh))

RoundRat(p, s, N, D, e) ==
    IF N = <<>> \/ s = 0 THEN FZero
    ELSE IF D = 1 /\ BBitLen(N) <= p THEN Canon(s, N, e)
    ELSE Quotient(p, s, N, D, e, p + 2 - (BBitLen(N) - BitLenInt(D)))

FFromInt(n) ==
    IF n = 0 THEN FZero
    ELSE Canon(IF n > 0 THEN 1 ELSE -1, BFromInt(IF n > 0 THEN n ELSE -n), 0)

Min(a, b) == IF a < b THEN a ELSE b

\* -1, 0, 1 as x < y, x = y, x > y
FCmpMag(x, y) ==
    BCmp(BShl(x[2], x[3] - Min(x[3], y[3])), BShl(y[2], y[3] - Min(x[3], y[3])))

FCmp(x, y) ==
    IF x[1] # y[1] THEN (IF x[1] < y[1] THEN -1 ELSE 1)
    ELSE IF x[1] = 0 THEN 0
    ELSE x[1] * FCmpMag(x, y)

\* sx * A * 2^e + sy * B * 2^e rounded to p bits, c the comparison of A with B
AddAligned(p, sx, sy, A, B, e, c) ==
    IF sx # sy /\ c = 0 THEN FZero
    ELSE RoundRat(p,
                  IF sx = sy \/ c > 0 THEN sx ELSE sy,
                  IF sx = sy THEN BAdd(A, B)
                  ELSE IF c > 0 THEN BSub(A, B) ELSE BSub(B, A),
                  1, e)

Aligned(p, sx, sy, A, B, e) == AddAligned(p, sx, sy, A, B, e, BCmp(A, B))

\* x + y rounded to p bits, for x and y of at most p bits
FAdd(p, x, y) ==
    IF x[1] = 0 THEN y
    ELSE IF y[1] = 0 THEN x
    ELSE Aligned(p, x[1], y[1],
                 BShl(x[2], x[3] - Min(x[3], y[3])),
                 BShl(y[2], y[3] - Min(x[3], y[3])),
                 Min(x[3], y[3]))

\* x * y rounded to p bits
FMul(p, x, y) == RoundRat(p, x[1] * y[1], BMul(x[2], y[2]), 1, x[3] + y[3])

\* x / d rounded to p bits, d a machine integer 0 < d < 2^17
FDivInt(p, x, d) == RoundRat(p, x[1], x[2], d, x[3])

(***************************************************************************)
(* JavaScript numbers and typed arrays.                                    *)
(***************************************************************************)
\* significant bits of a number (double) and of a Float32Array element
NumberBits == 53
Float32Bits == 24

\* x as a Float32Array stores it
Fround(x) == RoundRat(Float32Bits, x[1], x[2], 1, x[3])

\* v \div 2 rounded to nearest, ties to even, where v counts halves and
\* `st` says that the value lies above v halves
NearestEven(v, st) ==
    IF v % 2 = 1 /\ (st \/ (v \div 2) % 2 = 1) THEN (v \div 2) + 1 ELSE v \div 2

HalvesOf(q1) == NearestEven(BToInt(q1[1]), q1[2])

\* x as a Uint8ClampedArray stores it: clamped to 0..255, rounded to the
\* nearest integer, ties to even
ToUint8Clamp(x) ==
    IF x[1] <= 0 THEN 0
    ELSE IF FCmp(x, FFromInt(255)) >= 0 THEN 255
    ELSE IF x[3] >= 0 THEN BToInt(BShl(x[2], x[3]))
    ELSE HalvesOf(BShr(x[2], -x[3] - 1))

\* a decimal literal num/den of the source text, as the number it denotes
Literal(num, den) == RoundRat(NumberBits, 1, BFromInt(num), den, 0)

(***************************************************************************)
(* types.ts                                                                *)
(***************************************************************************)
Atkinson == "Atkinson"
FloydSteinberg == "Floyd-Steinberg"
Stucki == "Stucki"
Burkes == "Burkes"
Sierra == "Sierra"
Bayer4x4 == "Bayer 4x4 (Ordered)"
Grayscale == "Grayscale Only"

DitherAlgorithm ==
    {Atkinson, FloydSteinberg, Stucki, Burkes, Sierra, Bayer4x4, Grayscale}

(***************************************************************************)
(* utils/ditherAlgorithms                                                  *)
(***************************************************************************)
\* Math.min(Math.max(val, min), max)
MathMax(a, b) == IF FCmp(a, b) < 0 THEN b ELSE a
MathMin(a, b) == IF FCmp(a, b) > 0 THEN b ELSE a
clamp(val, min, max) == MathMin(MathMax(val, min), max)

bayerMatrix4x4 ==
    << <<0, 8, 2, 10>>,
       <<12, 4, 14, 6>>,
       <<3, 11, 1, 9>>,
       <<15, 7, 13, 5>> >>

\* const contrastFactor = (259 * (contrast + 255)) / (255 * (259 - contrast))
ContrastFactor(c) ==
    FDivInt(NumberBits, FFromInt(259 * (c + 255)), 255 * (259 - c))

\* Mutant: the contrast pivots on 127 and is re-centred on 128.
ToneChannel_pivot127(v, b, contrastFactor) ==
    clamp(FAdd(NumberBits,
               FMul(NumberBits, contrastFactor, FFromInt(v + b - 127)),
               FFromInt(128)),
          FFromInt(0), FFromInt(255))

\* one channel of the tone stage: v += brightness, then
\* clamp(contrastFactor * (v - 128) + 128, 0, 255)
ToneChannel(v, b, contrastFactor) ==
    clamp(FAdd(NumberBits,
               FMul(NumberBits, contrastFactor, FFromInt(v + b - 128)),
               FFromInt(128)),
          FFromInt(0), FFromInt(255))

\* Mutant: 0.578 for 0.587.
Luma_typo(r, g, b) ==
    FAdd(NumberBits,
         FAdd(NumberBits, FMul(NumberBits, Literal(299, 1000), r),
                          FMul(NumberBits, Literal(578, 1000), g)),
         FMul(NumberBits, Literal(114, 1000), b))

\* const gray = 0.299 * r + 0.587 * g + 0.114 * b
Luma(r, g, b) ==
    FAdd(NumberBits,
         FAdd(NumberBits, FMul(NumberBits, Literal(299, 1000), r),
                          FMul(NumberBits, Literal(587, 1000), g)),
         FMul(NumberBits, Literal(114, 1000), b))

TonePixel(r, g, b, br, contrastFactor) ==
    Luma(ToneChannel(r, br, contrastFactor), ToneChannel(g, br, contrastFactor),
         ToneChannel(b, br, contrastFactor))

\* the number the tone loop computes as `gray` for one pixel
ToneGray(r, g, b, br, c) == TonePixel(r, g, b, br, ContrastFactor(c))

\* The offsets and weights of the addError calls of each diffusion branch, in
\* source order: <<dx, dy, numerator, denominator>> for
\* addError(x + dx, y + dy, quantError * numerator / denominator).
FloydSteinbergKernel ==
    << <<1, 0, 7, 16>>, <<-1, 1, 3, 16>>, <<0, 1, 5, 16>>, <<1, 1, 1, 16>> >>

AtkinsonKernel ==
    << <<1, 0, 1, 8>>, <<2, 0, 1, 8>>, <<-1, 1, 1, 8>>, <<0, 1, 1, 8>>,
       <<1, 1, 1, 8>>, <<0, 2, 1, 8>> >>

StuckiKernel ==
    << <<1, 0, 8, 42>>, <<2, 0, 4, 42>>,
       <<-2, 1, 2, 42>>, <<-1, 1, 4, 42>>, <<0, 1, 8, 42>>,
       <<1, 1, 4, 42>>, <<2, 1, 2, 42>>,
       <<-2, 2, 1, 42>>, <<-1, 2, 2, 42>>, <<0, 2, 4, 42>>,
       <<1, 2, 2, 42>>, <<2, 2, 1, 42>> >>

BurkesKernel ==
    << <<1, 0, 8, 32>>, <<2, 0, 4, 32>>,
       <<-2, 1, 2, 32>>, <<-1, 1, 4, 32>>, <<0, 1, 8, 32>>,
       <<1, 1, 4, 32>>, <<2, 1, 2, 32>> >>

SierraKernel ==
    << <<1, 0, 5, 32>>, <<2, 0, 3, 32>>,
       <<-2, 1, 2, 32>>, <<-1, 1, 4, 32>>, <<0, 1, 5, 32>>,
       <<1, 1, 4, 32>>, <<2, 1, 2, 32>>,
       <<-1, 2, 2, 32>>, <<0, 2, 3, 32>>, <<1, 2, 2, 32>> >>

\* Mutant: the Floyd-Steinberg weights of (-1,1) and (0,1) exchanged.
Kernel_swapped(alg) ==
    CASE alg = FloydSteinberg ->
           << <<1, 0, 7, 16>>, <<-1, 1, 5, 16>>, <<0, 1, 3, 16>>, <<1, 1, 1, 16>> >>
      [] alg = Atkinson -> AtkinsonKernel
      [] alg = Stucki -> StuckiKernel
      [] alg = Burkes -> BurkesKernel
      [] alg = Sierra -> SierraKernel
      [] OTHER -> << >>

\* Mutant: Burkes sends its first share to the pixel on the left.
Kernel_backward(alg) ==
    CASE alg = FloydSteinberg -> FloydSteinbergKernel
      [] alg = Atkinson -> AtkinsonKernel
      [] alg = Stucki -> StuckiKernel
      [] alg = Burkes -> [BurkesKernel EXCEPT ![1] = <<-1, 0, 8, 32>>]
      [] alg = Sierra -> SierraKernel
      [] OTHER -> << >>

\* The if / else-if chain of lines 146-190: no branch is taken under another
\* algorithm.
Kernel(alg) ==
    CASE alg = FloydSteinberg -> FloydSteinbergKernel
      [] alg = Atkinson -> AtkinsonKernel
      [] alg = Stucki -> StuckiKernel
      [] alg = Burkes -> BurkesKernel
      [] alg = Sierra -> SierraKernel
      [] OTHER -> << >>

\* Mutant: the share is not divided.
ErrorShare_undivided(quantErr, num, den) ==
    FMul(NumberBits, quantErr, FFromInt(num))

\* quantError * numerator / denominator
ErrorShare(quantErr, num, den) ==
    FDivInt(NumberBits, FMul(NumberBits, quantErr, FFromInt(num)), den)

\* Mutant: the midpoint 128 goes to black.
Quantized_midBlack(oldPixel) == IF FCmp(oldPixel, FFromInt(128)) <= 0 THEN 0 ELSE 255

\* Mutant: white written as 1.
Quantized_one(oldPixel) == IF FCmp(oldPixel, FFromInt(128)) < 0 THEN 0 ELSE 1

\* const newPixel = oldPixel < 128 ? 0 : 255
Quantized(oldPixel) == IF FCmp(oldPixel, FFromInt(128)) < 0 THEN 0 ELSE 255

\* Mutant: the matrix indexed [x % 4][y % 4].
BayerThreshold_transposed(px, py) ==
    FMul(NumberBits,
         FDivInt(NumberBits, FFromInt(bayerMatrix4x4[(px % 4) + 1][(py % 4) + 1]), 16),
         FFromInt(255))

\* const threshold = (bayerMatrix4x4[y % 4][x % 4] / 16) * 255
BayerThreshold(px, py) ==
    FMul(NumberBits,
         FDivInt(NumberBits, FFromInt(bayerMatrix4x4[(py % 4) + 1][(px % 4) + 1]), 16),
         FFromInt(255))

\* const newPixel = oldPixel > threshold ? 255 : 0
Ordered(oldPixel, px, py) ==
    IF FCmp(oldPixel, BayerThreshold(px, py)) > 0 THEN 255 ELSE 0

\* Mutant: the alpha byte is written too.
StoreRGB_alpha(buf, i, v) ==
    [buf EXCEPT ![i + 1] = v, ![i + 2] = v, ![i + 3] = v, ![i + 4] = v]

\* data[i] = v; data[i + 1] = v; data[i + 2] = v, for a 0-based index i
StoreRGB(buf, i, v) ==
    [buf EXCEPT ![i + 1] = v, ![i + 2] = v, ![i + 3] = v]

\* Mutant: the early return is missing.
ReturnsAfterTone_never(alg) == FALSE

\* if (algorithm === DitherAlgorithm.Grayscale) return ...
ReturnsAfterTone(alg) == alg = Grayscale

(***************************************************************************)
(* The inputs of the model.                                                *)
(***************************************************************************)
MaxWidth == 5
MaxHeight == 4

\* Test images: the pixel <<r, g, b, a>> at (px, py)
Patterns == {"flat128", "corner", "checker", "colour"}

PixelOf(pat, px, py) ==
    CASE pat = "flat128" -> <<128, 128, 128, 255>>
      [] pat = "corner"  -> IF px = 0 /\ py = 0 THEN <<255, 255, 255, 255>>
                            ELSE <<0, 0, 0, 255>>
      [] pat = "checker" -> IF (px + py) % 2 = 0
                            THEN <<0, 0, 0, (255 - 17 * py) % 256>>
                            ELSE <<255, 255, 255, (255 - 90 * py - 40 * (px - 1)) % 256>>
      [] pat = "colour"  -> <<(37 * px + 91 * py + 20) % 256,
                              (53 * px + 17 * py + 100) % 256,
                              (29 * px + 71 * py + 200) % 256,
                              (255 - 60 * px - 25 * py) % 256>>

Image(pat, w, h) ==
    [j \in 1..(4 * w * h) |->
        PixelOf(pat, ((j - 1) \div 4) % w, ((j - 1) \div 4) \div w)[((j - 1) % 4) + 1]]

\* <<brightness, contrast>>
Tones == {<<0, 0>>, <<100, 100>>, <<-100, -100>>, <<35, -40>>}

\* The caller that calls again: at most MaxCalls calls on one image of
\* RepeatSide x RepeatSide pixels, with these tones
MaxCalls == 3
RepeatSide == 2
RepeatTones == {<<0, 0>>, <<35, -40>>}

(***************************************************************************)
(* State.                                                                  *)
(***************************************************************************)
VARIABLES
    heap,             \* the byte arrays: "source" is the caller's
                      \* sourceImageData.data, "copy" the array a call allocates
    sourceImageData,  \* the caller's ImageData: [data, width, height]
    algorithm, brightness, contrast,   \* the arguments of the call
    pc,               \* where the call is: "idle" (no call), "tone", "bayer",
                      \* "diffuse" (top of the pixel loop), "distribute"
    width, height,    \* processImage's locals
    data,             \* the array `data` refers to: a key of heap
    i,                \* index of the tone loop
    errorBuffer,      \* the Float32Array, 1-based here
    x, y,             \* the pixel loops
    quantError,
    k,                \* the next addError call of the current pixel's branch
    result,           \* the ImageData the last call returned
    calls,            \* number of calls started
    loaded,           \* history: the caller's bytes when the image was loaded
    first,            \* history: arguments and output bytes of the first call
    others,           \* history: calls since, with other arguments than the first
    touched,          \* history: the errorBuffer indices the last addError used
    applied           \* history: the addError calls made for the current pixel,
                      \* each [dx, dy, num, den, err, hit]

\* The App component, which calls processImage from a timer
VARIABLES
    originalImage,    \* the loaded image, or null
    settings,         \* the ImageSettings in force
    isProcessing,
    previewUrl,       \* what the preview shows: the image and settings it was
                      \* computed from
    stats,            \* likewise for the statistics line
    timers,           \* the pending setTimeout timers: [id, delay, image,
                      \* settings, version], the last three being the state the
                      \* callback closed over
    timer,            \* the id the last effect holds for its cleanup
    nextTimer,        \* the id the next setTimeout returns
    effectPending,    \* a render changed triggerProcessing and its effect has
                      \* not run yet
    version,          \* history: the number of state changes so far
    writes,           \* history: the versions of the runs that wrote the preview
    gaveUp            \* history: a run returned without a canvas context

app == <<originalImage, settings, isProcessing, previewUrl, stats, timers, timer,
         nextTimer, effectPending, version, writes, gaveUp>>

engine == <<heap, sourceImageData, algorithm, brightness, contrast, pc, width,
            height, data, i, errorBuffer, x, y, quantError, k, result, calls,
            loaded, first, others, touched, applied>>

vars == <<heap, sourceImageData, algorithm, brightness, contrast, pc, width,
          height, data, i, errorBuffer, x, y, quantError, k, result, calls,
          loaded, first, others, touched, applied, app>>

locals == <<width, height, data, i, errorBuffer, x, y, quantError, k>>
args == <<algorithm, brightness, contrast>>
history == <<loaded, first, others, touched, applied>>

NoImage == [data |-> "none", width |-> 0, height |-> 0]

\* App: the images a user may load, the settings a user may choose, and the
\* number of loads and changes followed
null == "null"
Images == {"photo1", "photo2"}
INITIAL_SETTINGS == "initial"
ImageSettings == {INITIAL_SETTINGS, "darker", "stucki"}
MaxChanges == 3

\* useState's initial values; the effect of the first render is still to run
Mounted ==
    /\ originalImage = null
    /\ settings = INITIAL_SETTINGS
    /\ isProcessing = FALSE
    /\ previewUrl = [image |-> null, settings |-> INITIAL_SETTINGS]
    /\ stats = [image |-> null, settings |-> INITIAL_SETTINGS]
    /\ timers = {} /\ timer = 0 /\ nextTimer = 1
    /\ effectPending = TRUE
    /\ version = 0 /\ writes = << >> /\ gaveUp = FALSE
NoCall == [algorithm |-> "none", brightness |-> 0, contrast |-> 0, out |-> << >>]

\* Mutant: `data` is the caller's array itself.
NewUint8ClampedArray_alias(h, from) == [ref |-> from, heap |-> h]

\* new Uint8ClampedArray(typedArray): a new array holding a copy of the bytes
NewUint8ClampedArray(h, from) ==
    [ref |-> "copy", heap |-> [h EXCEPT !["copy"] = h[from]]]

\* new ImageData(data, width, height) wraps the array it is given
NewImageData(d, w, h) == [data |-> d, width |-> w, height |-> h]

\* Mutant: x > width for x >= width.
OutOfBounds_offByOne(px, py) == px < 0 \/ px > width \/ py < 0 \/ py >= height

\* Mutant: only the row is checked.
OutOfBounds_rowsOnly(px, py) == py < 0 \/ py >= height

\* if (x < 0 || x >= width || y < 0 || y >= height) return;
OutOfBounds(px, py) == px < 0 \/ px >= width \/ py < 0 \/ py >= height

\* errorBuffer[y * width + x] += err.  A typed array ignores a store outside
\* its range.
addError(eb, px, py, err) ==
    IF OutOfBounds(px, py) THEN eb
    ELSE LET idx == py * width + px
         IN  IF idx \in 0..(Len(eb) - 1)
             THEN [eb EXCEPT ![idx + 1] = Fround(FAdd(NumberBits, @, err))]
             ELSE eb

\* the indices of errorBuffer that addError(px, py, _) reads and writes
addErrorIndices(px, py) ==
    IF OutOfBounds(px, py) THEN {} ELSE {py * width + px}

TypeOK ==
    /\ pc \in {"idle", "tone", "bayer", "diffuse", "distribute"}
    /\ algorithm \in DitherAlgorithm
    /\ data \in {"source", "copy"}
    /\ \A r \in DOMAIN heap : \A j \in DOMAIN heap[r] : heap[r][j] \in 0..255

\* The caller has loaded an image; no call has been made.  Locals that no call
\* has declared yet are shown as zero.
Loaded(pat, w, h) ==
    /\ heap = [source |-> Image(pat, w, h), copy |-> << >>]
    /\ sourceImageData = [data |-> "source", width |-> w, height |-> h]
    /\ loaded = Image(pat, w, h)
    /\ algorithm = Atkinson /\ brightness = 0 /\ contrast = 0
    /\ pc = "idle"
    /\ width = 0 /\ height = 0 /\ data = "copy" /\ i = 0
    /\ errorBuffer = << >>
    /\ x = 0 /\ y = 0 /\ quantError = FZero /\ k = 0
    /\ result = NoImage
    /\ calls = 0
    /\ first = NoCall /\ others = 0
    /\ touched = {} /\ applied = << >>
    /\ Mounted

Init ==
    \E w \in 1..MaxWidth, h \in 1..MaxHeight, pat \in Patterns : Loaded(pat, w, h)

InitCalls == Loaded("colour", RepeatSide, RepeatSide)

\* lines 54-68: processImage is entered; width, height and the copy are taken
Enter(alg, tone) ==
    LET fresh == NewUint8ClampedArray(heap, sourceImageData.data)
    IN  /\ pc = "idle"
        /\ algorithm' = alg /\ brightness' = tone[1] /\ contrast' = tone[2]
        /\ width' = sourceImageData.width
        /\ height' = sourceImageData.height
        /\ heap' = fresh.heap
        /\ data' = fresh.ref
        /\ i' = 0
        /\ x' = 0 /\ y' = 0 /\ quantError' = FZero /\ k' = 0
        /\ pc' = "tone"
        /\ calls' = calls + 1
        /\ result' = NoImage
        /\ others' = IF first # NoCall /\
                        <<alg, tone[1], tone[2]>> #
                            <<first.algorithm, first.brightness, first.contrast>>
                     THEN others + 1 ELSE others
        /\ touched' = {} /\ applied' = << >>
        /\ UNCHANGED <<sourceImageData, app, errorBuffer, loaded, first>>

\* the caller's only call
Call ==
    /\ calls = 0
    /\ \E alg \in DitherAlgorithm, tone \in Tones : Enter(alg, tone)

\* a caller that calls again and again on the same image
Recall ==
    /\ calls < MaxCalls
    /\ \E alg \in DitherAlgorithm, tone \in RepeatTones : Enter(alg, tone)

\* lines 70-92: one iteration of the tone loop
ToneStep ==
    /\ pc = "tone"
    /\ i < Len(heap[data])
    /\ LET buf  == heap[data]
           gray == ToneGray(buf[i + 1], buf[i + 2], buf[i + 3], brightness, contrast)
       IN  heap' = [heap EXCEPT ![data] = StoreRGB(buf, i, ToUint8Clamp(gray))]
    /\ i' = i + 4
    /\ UNCHANGED <<sourceImageData, app, args, pc, width, height, data, errorBuffer,
                   x, y, quantError, k, result, calls, history>>

\* the call returns new ImageData(data, width, height)
Return ==
    /\ result' = NewImageData(data, width, height)
    /\ pc' = "idle"
    /\ first' = IF first = NoCall
                THEN [algorithm |-> algorithm, brightness |-> brightness,
                      contrast |-> contrast, out |-> heap[data]]
                ELSE first
    /\ UNCHANGED <<heap, sourceImageData, app, args, locals, calls, loaded,
                   others, touched, applied>>

\* lines 94-96
ReturnGrayscale ==
    /\ pc = "tone"
    /\ i >= Len(heap[data])
    /\ ReturnsAfterTone(algorithm)
    /\ Return

\* Mutant: the Float32Array is kept between calls and only allocated and
\* filled when its length does not fit.
InitErrorBuffer_reused ==
    /\ pc = "tone"
    /\ i >= Len(heap[data])
    /\ ~ReturnsAfterTone(algorithm)
    /\ errorBuffer' = IF Len(errorBuffer) = width * height THEN errorBuffer
                      ELSE [j \in 1..(width * height) |->
                               Fround(FFromInt(heap[data][(j - 1) * 4 + 1]))]
    /\ x' = 0 /\ y' = 0
    /\ pc' = IF algorithm = Bayer4x4 THEN "bayer" ELSE "diffuse"
    /\ UNCHANGED <<heap, sourceImageData, app, args, width, height, data, i,
                   quantError, k, result, calls, history>>

\* lines 100-103 and the branch of line 116
InitErrorBuffer ==
    /\ pc = "tone"
    /\ i >= Len(heap[data])
    /\ ~ReturnsAfterTone(algorithm)
    /\ errorBuffer' = [j \in 1..(width * height) |->
                          Fround(FFromInt(heap[data][(j - 1) * 4 + 1]))]
    /\ x' = 0 /\ y' = 0
    /\ pc' = IF algorithm = Bayer4x4 THEN "bayer" ELSE "diffuse"
    /\ UNCHANGED <<heap, sourceImageData, app, args, width, height, data, i,
                   quantError, k, result, calls, history>>

\* x++ of the inner loop, y++ of the outer one
NextX == IF x + 1 < width THEN x + 1 ELSE 0
NextY == IF x + 1 < width THEN y ELSE y + 1

\* lines 117-128: one pixel of the ordered dither
BayerStep ==
    /\ pc = "bayer"
    /\ y < height
    /\ LET oldPixel == errorBuffer[y * width + x + 1]
           idx      == (y * width + x) * 4
       IN  heap' = [heap EXCEPT ![data] = StoreRGB(@, idx, Ordered(oldPixel, x, y))]
    /\ x' = NextX /\ y' = NextY
    /\ UNCHANGED <<sourceImageData, app, args, pc, width, height, data, i,
                   errorBuffer, quantError, k, result, calls, history>>

\* line 129
ReturnBayer ==
    /\ pc = "bayer"
    /\ y >= height
    /\ Return

\* lines 135-143: one pixel is quantised and written
Quantize ==
    /\ pc = "diffuse"
    /\ y < height
    /\ LET oldPixel == errorBuffer[y * width + x + 1]
           newPixel == Quantized(oldPixel)
           idx      == (y * width + x) * 4
       IN  /\ quantError' = FAdd(NumberBits, oldPixel, FFromInt(-newPixel))
           /\ heap' = [heap EXCEPT ![data] = StoreRGB(@, idx, newPixel)]
    /\ k' = 1
    /\ pc' = "distribute"
    /\ applied' = << >>
    /\ touched' = {}
    /\ UNCHANGED <<sourceImageData, app, args, width, height, data, i, errorBuffer,
                   x, y, result, calls, loaded, first, others>>

\* lines 146-190: the next addError call of the branch taken
AddErrorStep ==
    /\ pc = "distribute"
    /\ k <= Len(Kernel(algorithm))
    /\ LET t   == Kernel(algorithm)[k]
           err == ErrorShare(quantError, t[3], t[4])
       IN  /\ errorBuffer' = addError(errorBuffer, x + t[1], y + t[2], err)
           /\ touched' = addErrorIndices(x + t[1], y + t[2])
           /\ applied' = Append(applied,
                                [dx |-> t[1], dy |-> t[2], num |-> t[3], den |-> t[4],
                                 err |-> err,
                                 hit |-> addErrorIndices(x + t[1], y + t[2]) # {}])
    /\ k' = k + 1
    /\ UNCHANGED <<heap, sourceImageData, app, args, pc, width, height, data, i,
                   x, y, quantError, result, calls, loaded, first, others>>

\* the branch is done: on to the next pixel
NextPixel ==
    /\ pc = "distribute"
    /\ k > Len(Kernel(algorithm))
    /\ x' = NextX /\ y' = NextY
    /\ pc' = "diffuse"
    /\ UNCHANGED <<heap, sourceImageData, app, args, width, height, data, i,
                   errorBuffer, quantError, k, result, calls, history>>

\* line 194
ReturnDiffusion ==
    /\ pc = "diffuse"
    /\ y >= height
    /\ Return

Next ==
    \/ Call
    \/ ToneStep
    \/ ReturnGrayscale
    \/ InitErrorBuffer
    \/ BayerStep
    \/ ReturnBayer
    \/ Quantize
    \/ AddErrorStep
    \/ NextPixel
    \/ ReturnDiffusion

Spec == Init /\ [][Next]_vars

NextCalls ==
    \/ Recall
    \/ ToneStep
    \/ ReturnGrayscale
    \/ InitErrorBuffer
    \/ BayerStep
    \/ ReturnBayer
    \/ Quantize
    \/ AddErrorStep
    \/ NextPixel
    \/ ReturnDiffusion

SpecCalls == InitCalls /\ [][NextCalls]_vars

(***************************************************************************)
(* components/App: the loads, the settings, the effect and its timers      *)
(***************************************************************************)
DebounceMs == 150
RunDelayMs == 50

\* the state a callback created by the current render closes over
Closure == [image |-> originalImage, settings |-> settings, version |-> version]

\* setTimeout(callback, delay): the timer gets the next id
SetTimeout(pending, delay, c) ==
    pending \cup {[id |-> nextTimer, delay |-> delay, image |-> c.image,
                   settings |-> c.settings, version |-> c.version]}

\* clearTimeout(id)
ClearTimeout(pending, id) == {t \in pending : t.id # id}

\* Mutant: timers run in any order.
TimerMayRun_anyOrder(t) == t \in timers

\* A timer's callback runs once every timer set before it with the same or a
\* shorter delay has run.
TimerMayRun(t) ==
    /\ t \in timers
    /\ \A u \in timers : ~(u.id < t.id /\ u.delay <= t.delay)

\* a render with new state: triggerProcessing is a new function, so the effect
\* is due again; the effect of the render before has run by then
Render ==
    /\ version < MaxChanges
    /\ ~effectPending
    /\ version' = version + 1
    /\ effectPending' = TRUE
    /\ UNCHANGED <<isProcessing, previewUrl, stats, timers, timer, nextTimer,
                   writes, gaveUp, engine>>

\* lines 50-54: img.onload of a chosen file
handleImageUpload ==
    /\ \E img \in Images : originalImage' = img
    /\ settings' = INITIAL_SETTINGS
    /\ Render

\* setSettings from a control or from handleReset: a new settings object
setSettings ==
    /\ \E s \in ImageSettings : settings' = s
    /\ UNCHANGED originalImage
    /\ Render

\* lines 133-138: the cleanup of the effect before clears its timer, and the
\* effect sets the 150 ms timer over the current triggerProcessing
useEffect ==
    /\ effectPending
    /\ timers' = SetTimeout(ClearTimeout(timers, timer), DebounceMs, Closure)
    /\ timer' = nextTimer
    /\ nextTimer' = nextTimer + 1
    /\ effectPending' = FALSE
    /\ UNCHANGED <<originalImage, settings, isProcessing, previewUrl, stats,
                   version, writes, gaveUp, engine>>

\* lines 59-64: the 150 ms timer runs triggerProcessing, which returns at once
\* without an image and otherwise shows the loading state and sets the 50 ms
\* timer
triggerProcessing ==
    \E t \in timers :
        /\ t.delay = DebounceMs
        /\ TimerMayRun(t)
        /\ IF t.image = null
           THEN /\ timers' = timers \ {t}
                /\ UNCHANGED <<isProcessing, nextTimer>>
           ELSE /\ isProcessing' = TRUE
                /\ timers' = SetTimeout(timers \ {t}, RunDelayMs, t)
                /\ nextTimer' = nextTimer + 1
        /\ UNCHANGED <<originalImage, settings, previewUrl, stats, timer,
                       effectPending, version, writes, gaveUp, engine>>

\* lines 65-92: the 50 ms timer runs and the offscreen canvas gives no 2d
\* context: the callback returns
RunWithoutContext ==
    \E t \in timers :
        /\ t.delay = RunDelayMs
        /\ TimerMayRun(t)
        /\ timers' = timers \ {t}
        /\ gaveUp' = TRUE
        /\ UNCHANGED <<originalImage, settings, isProcessing, previewUrl, stats,
                       timer, nextTimer, effectPending, version, writes, engine>>

\* lines 65-130: the 50 ms timer runs with a context: processImage is called
\* with the settings closed over; the preview is written if the main canvas,
\* which is rendered while an image is loaded, gives a context; the statistics
\* are set and the loading state ends
RunCompletes ==
    \E t \in timers, mainCtx \in BOOLEAN :
        /\ t.delay = RunDelayMs
        /\ TimerMayRun(t)
        /\ timers' = timers \ {t}
        /\ IF originalImage # null /\ mainCtx
           THEN /\ previewUrl' = [image |-> t.image, settings |-> t.settings]
                /\ writes' = Append(writes, t.version)
                /\ UNCHANGED gaveUp
           ELSE /\ gaveUp' = TRUE
                /\ UNCHANGED <<previewUrl, writes>>
        /\ stats' = [image |-> t.image, settings |-> t.settings]
        /\ isProcessing' = FALSE
        /\ UNCHANGED <<originalImage, settings, timer, nextTimer, effectPending,
                       version, engine>>

InitApp == Loaded("flat128", 1, 1)

NextApp ==
    \/ handleImageUpload
    \/ setSettings
    \/ useEffect
    \/ triggerProcessing
    \/ RunWithoutContext
    \/ RunCompletes

SpecApp == InitApp /\ [][NextApp]_vars

(***************************************************************************)
(* Properties.                                                             *)
(***************************************************************************)
Diffusers == {FloydSteinberg, Atkinson, Stucki, Burkes, Sierra}

\* a call has returned and its ImageData is in `result`
Returned == pc = "idle" /\ result # NoImage

Pixels == 0..(sourceImageData.width * sourceImageData.height - 1)

\* channel c (0 red, 1 green, 2 blue, 3 alpha) of pixel p of a byte array
Channel(buf, p, c) == buf[4 * p + c + 1]

Out == heap[result.data]

\* the 8-bit gray the tone stage gives pixel p of the loaded image
TonedGray(p) ==
    ToUint8Clamp(ToneGray(Channel(loaded, p, 0), Channel(loaded, p, 1),
                          Channel(loaded, p, 2), brightness, contrast))

InImage(px, py) ==
    /\ px \in 0..(sourceImageData.width - 1)
    /\ py \in 0..(sourceImageData.height - 1)

\* every addError call of the current pixel has been made
DistributionDone == pc = "distribute" /\ k > Len(Kernel(algorithm))

\* C1: under every algorithm but Grayscale-only, each pixel of the returned
\* buffer has R = G = B and that value is 0 or 255.
C1_BinaryOutput ==
    (Returned /\ algorithm # Grayscale) =>
        \A p \in Pixels :
            /\ Channel(Out, p, 0) \in {0, 255}
            /\ Channel(Out, p, 1) = Channel(Out, p, 0)
            /\ Channel(Out, p, 2) = Channel(Out, p, 0)

C1_Witness ==
    /\ Returned /\ algorithm = Sierra /\ brightness = 35 /\ contrast = -40
    /\ \E p, q \in Pixels : Channel(Out, p, 0) = 0 /\ Channel(Out, q, 0) = 255
    /\ \E p \in Pixels : Channel(loaded, p, 0) \notin {0, 255}

\* C2: from the copy to the return, under every algorithm, the buffer being
\* produced has the width, height and length of the input and the alpha byte
\* of every pixel is the input's: no step writes index (y*width+x)*4+3.
C2_DimensionsAndAlpha ==
    /\ (pc # "idle" \/ result # NoImage) =>
          /\ width = sourceImageData.width
          /\ height = sourceImageData.height
          /\ Len(heap[data]) = Len(loaded)
          /\ \A p \in Pixels : Channel(heap[data], p, 3) = Channel(loaded, p, 3)
    /\ Returned =>
          /\ result.width = sourceImageData.width
          /\ result.height = sourceImageData.height
          /\ result.data = data

C2_Witness ==
    /\ Returned
    /\ \E p \in Pixels :
          /\ Channel(loaded, p, 3) \notin {0, 255}
          /\ Channel(Out, p, 0) # Channel(loaded, p, 0)
          /\ Channel(Out, p, 0) # Channel(loaded, p, 3)

\* C3: the caller's buffer holds, in every state of every call, the bytes it
\* held when the image was loaded; the call writes to its own copy.
C3_InputNotMutated ==
    /\ heap["source"] = loaded
    /\ sourceImageData.data = "source"
    /\ (pc # "idle" \/ result # NoImage) => data # sourceImageData.data

C3_Witness == Returned /\ Out # loaded /\ algorithm = FloydSteinberg

\* C4: a call with the arguments of the first call, whatever calls were made in
\* between, returns the bytes the first call returned.
C4_Deterministic ==
    (/\ Returned
     /\ first # NoCall
     /\ algorithm = first.algorithm
     /\ brightness = first.brightness
     /\ contrast = first.contrast) => Out = first.out

C4_Witness ==
    /\ Returned /\ calls = 3 /\ others = 1
    /\ algorithm = first.algorithm /\ algorithm = Stucki
    /\ brightness = first.brightness /\ contrast = first.contrast
    /\ width = 2 /\ height = 2

\* C5: an addError call whose target (x+dx, y+dy) lies in the image reads and
\* writes the accumulator cell of exactly that pixel and changes no other; a
\* call whose target lies outside changes nothing and uses no index; no index
\* outside 0..width*height-1 is ever used.
C5_EdgeDrop ==
    [][ (pc = "distribute" /\ k <= Len(Kernel(algorithm))) =>
          LET tx == x + Kernel(algorithm)[k][1]
              ty == y + Kernel(algorithm)[k][2]
          IN  /\ touched' \subseteq 0..(width * height - 1)
              /\ Len(errorBuffer') = Len(errorBuffer)
              /\ InImage(tx, ty) =>
                    /\ touched' = {ty * width + tx}
                    /\ \A j \in 1..Len(errorBuffer) :
                          j # ty * width + tx + 1 => errorBuffer'[j] = errorBuffer[j]
              /\ ~InImage(tx, ty) =>
                    /\ touched' = {}
                    /\ errorBuffer' = errorBuffer ]_vars

\* the (-1,1) share of the corner pixel of a white-corner image is dropped
C5_Witness ==
    /\ pc = "distribute" /\ algorithm = FloydSteinberg
    /\ x = 0 /\ y = 0 /\ k = 3 /\ touched = {}
    /\ height > 1 /\ width > 1
    /\ Channel(loaded, 0, 0) = 255 /\ Channel(loaded, 1, 0) = 0
    /\ quantError # FZero

\* the kernel table of the specification
SpecKernel(alg) ==
    CASE alg = FloydSteinberg ->
           {<<1, 0, 7, 16>>, <<-1, 1, 3, 16>>, <<0, 1, 5, 16>>, <<1, 1, 1, 16>>}
      [] alg = Atkinson ->
           {<<1, 0, 1, 8>>, <<2, 0, 1, 8>>, <<-1, 1, 1, 8>>, <<0, 1, 1, 8>>,
            <<1, 1, 1, 8>>, <<0, 2, 1, 8>>}
      [] alg = Stucki ->
           {<<1, 0, 8, 42>>, <<2, 0, 4, 42>>, <<-2, 1, 2, 42>>, <<-1, 1, 4, 42>>,
            <<0, 1, 8, 42>>, <<1, 1, 4, 42>>, <<2, 1, 2, 42>>, <<-2, 2, 1, 42>>,
            <<-1, 2, 2, 42>>, <<0, 2, 4, 42>>, <<1, 2, 2, 42>>, <<2, 2, 1, 42>>}
      [] alg = Burkes ->
           {<<1, 0, 8, 32>>, <<2, 0, 4, 32>>, <<-2, 1, 2, 32>>, <<-1, 1, 4, 32>>,
            <<0, 1, 8, 32>>, <<1, 1, 4, 32>>, <<2, 1, 2, 32>>}
      [] alg = Sierra ->
           {<<1, 0, 5, 32>>, <<2, 0, 3, 32>>, <<-2, 1, 2, 32>>, <<-1, 1, 4, 32>>,
            <<0, 1, 5, 32>>, <<1, 1, 4, 32>>, <<2, 1, 2, 32>>, <<-1, 2, 2, 32>>,
            <<0, 2, 3, 32>>, <<1, 2, 2, 32>>}

\* the entry of the specification's table for an addError call: same offset,
\* same fraction
Listed(a, t) ==
    a.dx = t[1] /\ a.dy = t[2] /\ a.num * t[4] = t[3] * a.den

\* C6: when a pixel's error has been distributed, the addError calls made for
\* it are, one for one, the entries of the specification's table for the
\* algorithm: none missing, none extra, no offset twice, and each passes the
\* listed fraction of the pixel's quantisation error.
C6_KernelTable ==
    (DistributionDone /\ algorithm \in Diffusers) =>
        /\ Len(applied) = Cardinality(SpecKernel(algorithm))
        /\ \A t \in SpecKernel(algorithm) :
              \E j \in 1..Len(applied) : Listed(applied[j], t)
        /\ \A j \in 1..Len(applied) :
              \E t \in SpecKernel(algorithm) :
                 /\ Listed(applied[j], t)
                 /\ applied[j].err = ErrorShare(quantError, t[3], t[4])
        /\ \A j1, j2 \in 1..Len(applied) :
              (applied[j1].dx = applied[j2].dx /\ applied[j1].dy = applied[j2].dy)
                 => j1 = j2

C6_Witness ==
    /\ DistributionDone /\ algorithm = Sierra /\ Len(applied) = 10
    /\ quantError # FZero /\ x = 2 /\ y = 0 /\ width = 5 /\ height >= 3

\* a weight num/den in units of 1/672, the common denominator of the kernels
Units(num, den) == (num * 672) \div den

RECURSIVE SumUnits(_)
SumUnits(S) ==
    IF S = {} THEN 0
    ELSE LET t == CHOOSE u \in S : TRUE
         IN  Units(t[3], t[4]) + SumUnits(S \ {t})

\* the weights, in units, of the addError calls from the j-th on that changed
\* the accumulator, and the sum of the shares they added
RECURSIVE LandedUnits(_, _)
LandedUnits(seq, j) ==
    IF j > Len(seq) THEN 0
    ELSE (IF seq[j].hit THEN Units(seq[j].num, seq[j].den) ELSE 0)
         + LandedUnits(seq, j + 1)

RECURSIVE LandedSum(_, _)
LandedSum(seq, j) ==
    IF j > Len(seq) THEN FZero
    ELSE FAdd(NumberBits, IF seq[j].hit THEN seq[j].err ELSE FZero,
              LandedSum(seq, j + 1))

\* |a - b| <= |scale| * 2^-40
Within(a, b, scale) ==
    LET d == FAdd(NumberBits, a, <<-b[1], b[2], b[3]>>)
    IN  d = FZero \/ FCmpMag(<<1, d[2], d[3] + 40>>, scale) <= 0

\* C7: when a pixel's error has been distributed, the weights of the addError
\* calls that changed the accumulator sum to the weights of the table entries
\* whose target lies in the image; with every target in the image that is 1
\* (6/8 for Atkinson); and the shares added sum to the error times that weight:
\* exactly for the kernels over 8, 16 and 32, to within the rounding of the
\* twelve divisions by 42 for Stucki.
C7_Conservation ==
    (DistributionDone /\ algorithm \in Diffusers) =>
        LET inb    == {t \in SpecKernel(algorithm) : InImage(x + t[1], y + t[2])}
            landed == LandedUnits(applied, 1)
            total  == FMul(NumberBits, LandedSum(applied, 1), FFromInt(672))
            due    == FMul(NumberBits, quantError, FFromInt(landed))
        IN  /\ landed = SumUnits(inb)
            /\ inb = SpecKernel(algorithm) =>
                  landed = IF algorithm = Atkinson THEN (672 * 6) \div 8 ELSE 672
            /\ algorithm # Stucki => total = due
            /\ Within(total, due, quantError)

C7_Witness ==
    /\ DistributionDone /\ algorithm = Stucki
    /\ x = 2 /\ y = 0 /\ width = 5 /\ height >= 3
    /\ quantError # FZero
    /\ \A j \in 1..Len(applied) : applied[j].hit
    /\ Len(applied) = 12

\* every pixel is (0,0,0,a) or (255,255,255,a)
IsBinary(buf) ==
    \A p \in Pixels :
        \/ \A c \in 0..2 : Channel(buf, p, c) = 0
        \/ \A c \in 0..2 : Channel(buf, p, c) = 255

\* C8: Floyd-Steinberg with brightness 0 and contrast 0 on an image of pure
\* black and pure white pixels has quantisation error 0 at every pixel and
\* returns the input bytes.
C8_BinaryFixedPoint ==
    (/\ algorithm = FloydSteinberg /\ brightness = 0 /\ contrast = 0
     /\ IsBinary(loaded)) =>
        /\ pc = "distribute" => quantError = FZero
        /\ Returned => Out = loaded

C8_Witness ==
    /\ Returned /\ algorithm = FloydSteinberg /\ brightness = 0 /\ contrast = 0
    /\ loaded = <<0, 0, 0, 255, 255, 255, 255, 255>>
    /\ Out = <<0, 0, 0, 255, 255, 255, 255, 255>>

\* the threshold matrix of the specification
SpecMatrix ==
    << <<0, 8, 2, 10>>, <<12, 4, 14, 6>>, <<3, 11, 1, 9>>, <<15, 7, 13, 5>> >>

\* C9: under Bayer 4x4 the output of pixel (x,y) is 255 if its own tone-mapped
\* gray exceeds matrix[y mod 4][x mod 4]/16*255 and 0 otherwise; on the flat
\* 4x4 image of gray 128 that is 255 at (0,0) and (1,1), 0 at the entry 15,
\* and 255 exactly where the entry is at most 8.
C9_Bayer ==
    (Returned /\ algorithm = Bayer4x4) =>
        /\ \A px \in 0..(width - 1), py \in 0..(height - 1), c \in 0..2 :
              Channel(Out, py * width + px, c) =
                 IF 16 * TonedGray(py * width + px)
                       > 255 * SpecMatrix[(py % 4) + 1][(px % 4) + 1]
                 THEN 255 ELSE 0
        /\ (brightness = 0 /\ contrast = 0 /\ width = 4 /\ height = 4
            /\ loaded = Image("flat128", 4, 4)) =>
              /\ Channel(Out, 0, 0) = 255
              /\ Channel(Out, 5, 0) = 255
              /\ SpecMatrix[4][1] = 15 /\ Channel(Out, 12, 0) = 0
              /\ \A px \in 0..3, py \in 0..3 :
                    Channel(Out, py * 4 + px, 0) = 255
                       <=> SpecMatrix[py + 1][px + 1] <= 8

C9_Witness ==
    /\ Returned /\ algorithm = Bayer4x4 /\ brightness = 0 /\ contrast = 0
    /\ width = 4 /\ height = 4 /\ loaded = Image("flat128", 4, 4)
    /\ Channel(Out, 0, 0) = 255 /\ Channel(Out, 12, 0) = 0

\* C10: a Grayscale-only call never leaves the tone stage: it allocates no
\* accumulator and runs no dithering step, and what it returns has, in every
\* pixel, R = G = B = the 8-bit tone-mapped luma of that input pixel and the
\* input's alpha.
C10_GrayscaleOnly ==
    algorithm = Grayscale =>
        /\ pc \in {"idle", "tone"}
        /\ errorBuffer = << >>
        /\ Returned =>
              \A p \in Pixels :
                 /\ \A c \in 0..2 : Channel(Out, p, c) = TonedGray(p)
                 /\ Channel(Out, p, 3) = Channel(loaded, p, 3)

C10_Witness ==
    /\ Returned /\ algorithm = Grayscale /\ brightness = 35
    /\ \E p \in Pixels :
          /\ Channel(Out, p, 0) \notin {0, 255}
          /\ Channel(Out, p, 0) # Channel(loaded, p, 0)
          /\ Channel(loaded, p, 3) # 255

\* 1000 times the luma of the input channels of pixel p, as an integer
Luma1000(p) ==
    299 * Channel(loaded, p, 0) + 587 * Channel(loaded, p, 1)
        + 114 * Channel(loaded, p, 2)

\* g is an integer nearest to n/1000
NearestTo(g, n) == 1000 * g - n <= 500 /\ n - 1000 * g <= 500

\* with contrast factor cf the tone stage leaves the channels of pixel p as
\* they are
ToneIdentity(p, cf) ==
    \A c \in 0..2 :
        ToneChannel(Channel(loaded, p, c), brightness, cf)
            = FFromInt(Channel(loaded, p, c))

\* C11: with brightness 0 and contrast 0 the contrast factor is exactly 1, the
\* tone stage leaves R, G and B of every pixel unchanged, and when the tone
\* loop has ended the gray stored in the three channels of every pixel is the
\* integer nearest to 0.299 R + 0.587 G + 0.114 B of the input pixel.
C11_NeutralTone ==
    (pc = "tone" /\ brightness = 0 /\ contrast = 0 /\ i >= Len(heap[data])) =>
        /\ ContrastFactor(contrast) = FFromInt(1)
        /\ \A p \in Pixels :
              4 * p < i =>
                 /\ ToneIdentity(p, ContrastFactor(contrast))
                 /\ \A c \in 0..2 :
                       Channel(heap[data], p, c) = Channel(heap[data], p, 0)
                 /\ NearestTo(Channel(heap[data], p, 0), Luma1000(p))

C11_Witness ==
    /\ pc = "tone" /\ brightness = 0 /\ contrast = 0
    /\ i = Len(heap[data]) /\ loaded = Image("colour", 5, 4)
    /\ \E p \in Pixels : Channel(heap[data], p, 0) # Channel(loaded, p, 0)
    /\ \E p \in Pixels : Luma1000(p) % 1000 \notin {0, 500}

\* a kernel entry that points to a pixel later in raster order
Forward(t) == t[2] > 0 \/ (t[2] = 0 /\ t[1] > 0)

\* the raster index of the loop's pixel (x, y), and the number of pixels the
\* diffusion loop has quantised
Current == y * width + x
QuantisedCount == IF pc = "distribute" THEN Current + 1 ELSE Current

\* the three colour bytes of pixel p of the working buffer
RGBOf(h, p) == <<Channel(h[data], p, 0), Channel(h[data], p, 1), Channel(h[data], p, 2)>>

\* C12: the diffusion loop starts at pixel 0, quantises the pixel it stands on,
\* moves to the next raster index and returns only after the last one, so every
\* pixel is quantised once, in raster order; every kernel entry has dy > 0 or
\* dy = 0 and dx > 0, and every accumulator cell an addError call writes lies
\* after the current pixel; neither the output bytes nor the accumulator cell
\* of a pixel already quantised changes again.
C12_RasterOrder ==
    [][/\ \A alg \in Diffusers :
             \A j \in 1..Len(Kernel(alg)) : Forward(Kernel(alg)[j])
       /\ (pc = "tone" /\ pc' = "diffuse") => (x' = 0 /\ y' = 0)
       /\ (algorithm \in Diffusers /\ pc \in {"diffuse", "distribute"}) =>
             /\ (pc = "diffuse" /\ pc' = "distribute") =>
                   /\ x' = x /\ y' = y /\ Current < width * height
                   /\ \A p \in Pixels :
                         p # Current => RGBOf(heap', p) = RGBOf(heap, p)
                   /\ errorBuffer' = errorBuffer
             /\ (pc = "distribute" /\ pc' = "diffuse") =>
                   /\ x' \in 0..(width - 1)
                   /\ y' * width + x' = Current + 1
             /\ (pc = "distribute" /\ pc' = "distribute") =>
                   /\ x' = x /\ y' = y
                   /\ \A j \in touched' : j > Current
                   /\ \A j \in 1..Len(errorBuffer) :
                         errorBuffer'[j] # errorBuffer[j] => (j - 1) \in touched'
             /\ pc' = "idle" => (pc = "diffuse" /\ Current = width * height)
             /\ \A p \in Pixels :
                   p < QuantisedCount =>
                      /\ RGBOf(heap', p) = RGBOf(heap, p)
                      /\ errorBuffer'[p + 1] = errorBuffer[p + 1]
      ]_vars

C12_Witness ==
    /\ DistributionDone /\ algorithm = Sierra
    /\ x = 2 /\ y = 1 /\ width = 5 /\ height = 4
    /\ quantError # FZero
    /\ Len(applied) = 10 /\ \A j \in 1..10 : applied[j].hit
    /\ \E p \in 0..5 : RGBOf(heap, p) = <<255, 255, 255>>
    /\ \E p \in 0..5 : RGBOf(heap, p) = <<0, 0, 0>>

\* the accumulator cell of pixel p
Accumulator(p) == errorBuffer[p + 1]

\* the numbers 128 and 255
Midpoint == FFromInt(128)
White == FFromInt(255)

\* C13: when a pixel has been quantised (k = 1: none of its error has been
\* handed on yet), the byte written
\* for it is 0 if its accumulator value is below 128 and 255 if it is 128 or
\* more, the error being distributed plus that byte is the accumulator value,
\* and the first pixel, which no error has reached, is quantised from its
\* tone-mapped gray.
C13_QuantiseFromAccumulator ==
    (pc = "distribute" /\ k = 1 /\ algorithm \in Diffusers) =>
        /\ RGBOf(heap, Current) =
              IF FCmp(Accumulator(Current), Midpoint) < 0
              THEN <<0, 0, 0>> ELSE <<255, 255, 255>>
        /\ Accumulator(Current) = Midpoint =>
              RGBOf(heap, Current) = <<255, 255, 255>>
        /\ Channel(heap[data], Current, 0) = 0 =>
              quantError = Accumulator(Current)
        /\ Channel(heap[data], Current, 0) = 255 =>
              FAdd(NumberBits, quantError, White) = Accumulator(Current)
        /\ Current = 0 => Accumulator(0) = FFromInt(TonedGray(0))

\* flat gray 128 under Floyd-Steinberg: pixel 0 sits on the midpoint and went
\* white; pixel 1, whose gray is 128 too, received error and goes black
C13_Witness ==
    /\ pc = "distribute" /\ algorithm = FloydSteinberg
    /\ brightness = 0 /\ contrast = 0
    /\ x = 1 /\ y = 0 /\ k = 1
    /\ Accumulator(0) = FFromInt(128) /\ RGBOf(heap, 0) = <<255, 255, 255>>
    /\ TonedGray(1) = 128
    /\ FCmp(Accumulator(1), FFromInt(128)) < 0
    /\ RGBOf(heap, 1) = <<0, 0, 0>>
    /\ quantError = Accumulator(1)

\* the bounds of the accumulator and of the quantisation error
AccumulatorLow == FFromInt(-128)
AccumulatorHigh == FFromInt(383)
ErrorHigh == FFromInt(128)

\* lo <= v <= hi
Between(v, lo, hi) == FCmp(v, lo) >= 0 /\ FCmp(v, hi) <= 0

\* the weights of the kernel entries from the j-th on, in units of 1/672
RECURSIVE KernelUnits(_, _)
KernelUnits(seq, j) ==
    IF j > Len(seq) THEN 0
    ELSE Units(seq[j][3], seq[j][4]) + KernelUnits(seq, j + 1)

\* C14: when a pixel has been quantised (k = 1), its accumulator cell and
\* the cell of every pixel still to come lie in [-128, 383] and its
\* quantisation error lies in [-128, 128]; no kernel hands on more than the
\* whole error, which is why the bounds do not depend on the image size.
C14_AccumulatorBounded ==
    (algorithm \in Diffusers /\ pc = "distribute" /\ k = 1) =>
        /\ \A p \in Pixels :
              p >= Current => Between(Accumulator(p), AccumulatorLow, AccumulatorHigh)
        /\ Between(quantError, AccumulatorLow, ErrorHigh)
        /\ KernelUnits(Kernel(algorithm), 1) <= 672

\* a pixel is quantised from a value far above the channel range
C14_Witness ==
    /\ pc = "distribute" /\ k = 1 /\ algorithm \in Diffusers
    /\ FCmp(Accumulator(Current), FFromInt(300)) > 0
    /\ FCmp(quantError, FFromInt(45)) > 0
    /\ RGBOf(heap, Current) = <<255, 255, 255>>

\* nothing is scheduled: no timer is pending and no effect is due
Quiescent == timers = {} /\ ~effectPending

\* the preview was written by runs in the order of their settings
WritesInOrder ==
    \A a, b \in 1..Len(writes) : a < b => writes[a] <= writes[b]

\* what a run under the current image and settings leaves
UpToDate ==
    /\ ~isProcessing
    /\ originalImage # null =>
          /\ previewUrl = [image |-> originalImage, settings |-> settings]
          /\ stats = [image |-> originalImage, settings |-> settings]

\* C15: the runs write the preview in the order in which their settings were
\* chosen, and once nothing is scheduled the preview and the statistics are
\* those of the current image and settings and isProcessing is false.
C15_DebouncedPreview == WritesInOrder /\ (Quiescent => UpToDate)

\* C15, as far as it holds: the runs write in order, at most one run is
\* pending, and the quiescent state is up to date unless a run returned for
\* want of a canvas context.
C15_UnlessGaveUp ==
    /\ WritesInOrder
    /\ Cardinality({t \in timers : t.delay = RunDelayMs}) <= 1
    /\ (Quiescent /\ ~gaveUp) => UpToDate
=============================================================================
